---- MODULE Spec2Model ----
(***************************************************************************)
(* Model of the keystroke / gamepad capture page of the DOOMSat ground     *)
(* station (src/ground_station/app.py, KeyRecordingPage).                  *)
(*                                                                         *)
(* The page is driven by Qt's single-threaded event loop.  Four kinds of   *)
(* callbacks touch its state:                                              *)
(*   - key_timer.timeout (30 Hz) runs read_state and then poll_sdl_events, *)
(*     back to back, in connection order; poll_sdl_events handles the      *)
(*     queued SDL events one by one until the queue is empty;              *)
(*   - progressbar_timer.timeout (60 Hz) runs update_bar;                  *)
(*   - keyPressEvent / keyReleaseEvent.                                    *)
(* Every callback reads the monotonic clock perf_counter_ms(); the clock   *)
(* is the variable now, advanced by AdvanceTime.                           *)
(***************************************************************************)
EXTENDS Integers, Sequences, FiniteSets, TLC

(* ------------------------------ bounds --------------------------------- *)
\* largest clock value explored
MaxNow == 4002
\* longest tick stream explored
MaxLen == 3

(* ------------------------- program constants ---------------------------- *)
KEYSTROKE_TIMEOUT_MS == 2000
DEADZONE == 8000

(* ---------------------------- input domains ----------------------------- *)
\* clock values at which the page may be created
StartTimes == {0, 3000}
\* amounts by which the clock advances between two callbacks
TimeSteps == {1000, 2001}
\* Qt keys the operator presses
QtKeys == {"Key_W"}
\* Qt keys that set a bit of the modifier mask instead of taking a key slot
ModifierKeys == {"Key_Shift"}
\* SDL gamepad buttons; GUIDE has no DOOM button code
SdlButtons == {"SOUTH", "GUIDE"}
\* SDL gamepad axes that report motion; RIGHTX has no DOOM button code
SdlAxes == {"LEFTX", "LEFT_TRIGGER", "RIGHTX"}
\* raw values SDL reports for an axis: at and just inside each threshold
AxisValues(axis) ==
    IF axis \in {"LEFTX", "LEFTY"} THEN {-8000, 7999}
    ELSE IF axis = "LEFT_TRIGGER" THEN {15999, 16000}
    ELSE {16000}

VARIABLES
    now,                    \* value perf_counter_ms() returns
    pc,                     \* "idle", or "poll": poll_sdl_events is due or running
    active_keys,            \* self.active_keys
    joystick_x,             \* self.joystick_x
    joystick_y,             \* self.joystick_y
    active_joystick_keys,   \* self.active_joystick_keys, as its set of bits
    last_key_update,        \* self.last_key_update
    key_list,               \* self.key_list
    joystick_list,          \* self.joystick_list
    gamepad,                \* self.gamepad is not None
    tree_model,             \* rows appended to self.tree_model
    rec_active,             \* what rec_ind.set_active was last given
    bar_value               \* value of rec_ind.timeout_bar

vars == <<now, pc, active_keys, joystick_x, joystick_y, active_joystick_keys,
          last_key_update, key_list, joystick_list, gamepad, tree_model,
          rec_active, bar_value>>

\* the state the sampler works on
sampler_vars == <<active_keys, joystick_x, joystick_y, active_joystick_keys,
                  last_key_update, key_list, joystick_list>>

(* ----------------------- messages module (ticks) ------------------------ *)
\* DOOMKeystroke.from_qt_keys: up to three key slots and a modifier mask
from_qt_keys(keys) ==
    LET plain == keys \ ModifierKeys
        slots == IF Cardinality(plain) <= 3 THEN plain
                 ELSE CHOOSE s \in SUBSET plain : Cardinality(s) = 3
    IN  [keys |-> slots, modifiers |-> keys \cap ModifierKeys]

\* a gamepad tick: two axis values and the button mask
gamepad_tick(x, y, buttons) == [x |-> x, y |-> y, buttons |-> buttons]

\* a tick is idle when it records no input at all
is_idle(tick) ==
    IF "keys" \in DOMAIN tick
    THEN tick.keys = {} /\ tick.modifiers = {}
    ELSE tick.x = 0 /\ tick.y = 0 /\ tick.buttons = {}

\* remove_trailing_idles: drop idle ticks from the end, back to the last
\* non-idle tick
RECURSIVE remove_trailing_idles(_)
remove_trailing_idles(list) ==
    IF list = <<>> THEN <<>>
    ELSE IF is_idle(list[Len(list)])
         THEN remove_trailing_idles(SubSeq(list, 1, Len(list) - 1))
         ELSE list

\* SDL_BUTTONS_TO_BUTTON_CODES: the mask bits of each mapped button
SDL_BUTTONS_TO_BUTTON_CODES == [b \in {"SOUTH"} |-> {"BT_A"}]

\* SDL_AXES_TO_BUTTON_CODES: the mask bits of each trigger axis
SDL_AXES_TO_BUTTON_CODES == [a \in {"LEFT_TRIGGER"} |-> {"BT_L2"}]

Abs(v) == IF v < 0 THEN -v ELSE v

\* mutant of Max: the second argument is returned unclamped
Max_second(a, b) == b

Max(a, b) == IF a >= b THEN a ELSE b

(* ------------------------------ the clock ------------------------------- *)
\* perf_counter_ms() is monotonic: between two callbacks it moves forward
AdvanceTime ==
    /\ \E d \in TimeSteps : now + d <= MaxNow /\ now' = now + d
    /\ UNCHANGED <<pc, active_keys, joystick_x, joystick_y, active_joystick_keys,
                   last_key_update, key_list, joystick_list, gamepad, tree_model,
                   rec_active, bar_value>>

(* --------------------------- initial state ------------------------------ *)
Init ==
    /\ now \in StartTimes
    /\ pc = "idle"
    /\ active_keys = {}
    /\ joystick_x = 0
    /\ joystick_y = 0
    /\ active_joystick_keys = {}
    /\ last_key_update = 0
    /\ key_list = <<>>
    /\ joystick_list = <<>>
    /\ gamepad \in BOOLEAN
    /\ tree_model = <<>>
    /\ rec_active = FALSE        \* RecordingIndicator.__init__: set_active(False)
    /\ bar_value = -1            \* a QProgressBar that was given no value yet

(* ------------------------------ sampler -------------------------------- *)
joystick_active == joystick_x # 0 \/ joystick_y # 0 \/ active_joystick_keys # {}

\* mutant of Elapsed: the operands of the subtraction swapped
Elapsed_swapped(t, last) == last - t

\* elapsed = now - self.last_key_update
Elapsed(t, last) == t - last

\* mutant of TimedOut: the timeout counts as passed at exactly 2000 ms
TimedOut_inclusive(elapsed) == elapsed >= KEYSTROKE_TIMEOUT_MS

\* elapsed > KeyRecordingPage.KEYSTROKE_TIMEOUT_MS
TimedOut(elapsed) == elapsed > KEYSTROKE_TIMEOUT_MS

\* the condition of read_state's finalize branch
FinalizeCond ==
    /\ active_keys = {}
    /\ ~joystick_active
    /\ TimedOut(Elapsed(now, last_key_update))

\* duration = len(key_list) * 1000 // 30, split into seconds and milliseconds
Duration(n) ==
    LET duration == (n * 1000) \div 30
    IN  [s |-> duration \div 1000, ms |-> duration % 1000]

\* the number of milliseconds the head text f"{duration_s}.{duration}s" reads
\* as: str() writes the remainder without leading zeros, so its digits are
\* the first decimal places of the number shown
head_duration_ms(d) ==
    d.s * 1000 + (IF d.ms < 10 THEN d.ms * 100
                  ELSE IF d.ms < 100 THEN d.ms * 10
                  ELSE d.ms)

\* the keys and modifiers of a chunk of keystroke ticks, as its label shows
chunk_label(list) ==
    UNION {list[i].keys \cup list[i].modifiers : i \in DOMAIN list}

\* the history row add_keyset_entry builds from the list it is given: the
\* head shows the duration of len(key_list) ticks, and there is one label for
\* every chunk of six ticks
add_keyset_entry(list) ==
    [kind |-> "Keyboard", ticks |-> Len(list), duration |-> Duration(Len(list)),
     labels |-> [c \in 1..((Len(list) + 5) \div 6) |->
                   chunk_label(SubSeq(list, 6 * c - 5,
                                      IF 6 * c <= Len(list) THEN 6 * c
                                      ELSE Len(list)))]]

\* the history row add_gamepad_entry builds from the list it is given
add_gamepad_entry(list) ==
    [kind |-> "Gamepad", ticks |-> Len(list), duration |-> Duration(Len(list)),
     labels |-> <<>>]

\* mutant of FinalizedKeyList: the list is handed over without being trimmed
FinalizedKeyList_untrimmed(list) == list

\* self.key_list.remove_trailing_idles(), the list then handed to
\* add_keyset_entry
FinalizedKeyList(list) == remove_trailing_idles(list)

\* mutant of Finalize: the streams are cleared before the non-emptiness test
\* and the handoff, so nothing is left to hand over
Finalize_clear_first ==
    /\ key_list' = <<>>
    /\ joystick_list' = <<>>
    /\ UNCHANGED tree_model

\* mutant of Finalize: the branch does not return, so the tick of line 199
\* is appended to the stream just cleared
Finalize_no_return ==
    /\ key_list' = <<from_qt_keys(active_keys)>>
    /\ joystick_list' = <<>>
    /\ tree_model' =
          IF key_list # <<>>
          THEN Append(tree_model, add_keyset_entry(remove_trailing_idles(key_list)))
          ELSE tree_model

\* mutant of Finalize: the keyboard stream is handed over without the
\* `if self.key_list` test
Finalize_untested ==
    /\ key_list' = <<>>
    /\ joystick_list' = <<>>
    /\ tree_model' =
          Append(tree_model, add_keyset_entry(remove_trailing_idles(key_list)))

\* the finalize branch: each non-empty stream is trimmed, handed to the
\* history and cleared
Finalize ==
    LET rows == IF key_list # <<>>
                THEN Append(tree_model, add_keyset_entry(FinalizedKeyList(key_list)))
                ELSE tree_model
    IN  /\ key_list' = <<>>
        /\ joystick_list' = <<>>
        /\ tree_model' =
              IF joystick_list # <<>>
              THEN Append(rows, add_gamepad_entry(remove_trailing_idles(joystick_list)))
              ELSE rows

\* mutant of Sample: a gamepad tick is appended to joystick_list as well
Sample_both ==
    /\ Len(key_list) < MaxLen
    /\ key_list' = Append(key_list, from_qt_keys(active_keys))
    /\ joystick_list' =
          Append(joystick_list,
                 gamepad_tick(joystick_x, joystick_y, active_joystick_keys))
    /\ UNCHANGED tree_model

\* mutant of Sample: a tick is appended only while a key is held
Sample_active_only ==
    /\ Len(key_list) < MaxLen
    /\ key_list' = IF active_keys # {}
                   THEN Append(key_list, from_qt_keys(active_keys))
                   ELSE key_list
    /\ UNCHANGED <<joystick_list, tree_model>>

\* the other branch: one keystroke tick is appended to key_list
Sample ==
    /\ Len(key_list) < MaxLen
    /\ key_list' = Append(key_list, from_qt_keys(active_keys))
    /\ UNCHANGED <<joystick_list, tree_model>>

\* first slot of key_timer.timeout
read_state ==
    /\ pc = "idle"
    /\ IF FinalizeCond THEN Finalize ELSE Sample
    /\ pc' = "poll"
    /\ UNCHANGED <<now, active_keys, joystick_x, joystick_y, active_joystick_keys,
                   last_key_update, gamepad, rec_active, bar_value>>

(* ------------------------------ gamepad -------------------------------- *)
\* the fields the SDL event handlers work on, as one value
GamepadState ==
    [gamepad |-> gamepad, joystick_x |-> joystick_x, joystick_y |-> joystick_y,
     active_joystick_keys |-> active_joystick_keys,
     last_key_update |-> last_key_update]

handle_gamepad_button(g, button_id, pressed, t) ==
    IF button_id \notin DOMAIN SDL_BUTTONS_TO_BUTTON_CODES THEN g
    ELSE [g EXCEPT
            !.active_joystick_keys =
                IF pressed THEN @ \cup SDL_BUTTONS_TO_BUTTON_CODES[button_id]
                ELSE @ \ SDL_BUTTONS_TO_BUTTON_CODES[button_id],
            !.last_key_update = t]

\* mutant of handle_gamepad_axis: the thresholds are compared with > where
\* the code has >=
handle_gamepad_axis_strict(g, axis, value, t) ==
    IF axis = "LEFTX"
    THEN [g EXCEPT !.last_key_update = t,
                   !.joystick_x = IF Abs(value) > DEADZONE THEN value ELSE 0]
    ELSE IF axis = "LEFTY"
    THEN [g EXCEPT !.last_key_update = t,
                   !.joystick_y = IF Abs(value) > DEADZONE THEN value ELSE 0]
    ELSE IF axis \in DOMAIN SDL_AXES_TO_BUTTON_CODES
    THEN [g EXCEPT !.last_key_update = t,
                   !.active_joystick_keys =
                       IF Abs(value) > DEADZONE * 2
                       THEN @ \cup SDL_AXES_TO_BUTTON_CODES[axis]
                       ELSE @ \ SDL_AXES_TO_BUTTON_CODES[axis]]
    ELSE g

handle_gamepad_axis(g, axis, value, t) ==
    IF axis = "LEFTX"
    THEN [g EXCEPT !.last_key_update = t,
                   !.joystick_x = IF Abs(value) >= DEADZONE THEN value ELSE 0]
    ELSE IF axis = "LEFTY"
    THEN [g EXCEPT !.last_key_update = t,
                   !.joystick_y = IF Abs(value) >= DEADZONE THEN value ELSE 0]
    ELSE IF axis \in DOMAIN SDL_AXES_TO_BUTTON_CODES
    THEN [g EXCEPT !.last_key_update = t,
                   !.active_joystick_keys =
                       IF Abs(value) >= DEADZONE * 2
                       THEN @ \cup SDL_AXES_TO_BUTTON_CODES[axis]
                       ELSE @ \ SDL_AXES_TO_BUTTON_CODES[axis]]
    ELSE g

\* the events SDL_PollEvent may return
SdlEvents ==
    [type : {"GAMEPAD_ADDED", "GAMEPAD_REMOVED"}]
    \cup [type : {"GAMEPAD_BUTTON_DOWN", "GAMEPAD_BUTTON_UP"}, button : SdlButtons]
    \cup UNION {{[type |-> "GAMEPAD_AXIS_MOTION", axis |-> a, value |-> v] :
                    v \in AxisValues(a)} : a \in SdlAxes}

\* the body of the loop of poll_sdl_events: the branch of the event's type
\* (a GAMEPAD_ADDED whose SDL_OpenGamepad fails leaves self.gamepad None, as
\* if no event had come)
handle_sdl_event(g, event, t) ==
    IF event.type = "GAMEPAD_ADDED"
    THEN [g EXCEPT !.gamepad = TRUE]
    ELSE IF event.type = "GAMEPAD_REMOVED"
    THEN [g EXCEPT !.gamepad = FALSE]
    ELSE IF event.type = "GAMEPAD_BUTTON_DOWN"
    THEN handle_gamepad_button(g, event.button, TRUE, t)
    ELSE IF event.type = "GAMEPAD_BUTTON_UP"
    THEN handle_gamepad_button(g, event.button, FALSE, t)
    ELSE handle_gamepad_axis(g, event.axis, event.value, t)

\* SDL reports button and axis events of opened gamepads only
Delivered(g, event) ==
    event.type \in {"GAMEPAD_ADDED", "GAMEPAD_REMOVED"} \/ g.gamepad

\* second slot of key_timer.timeout, one iteration of its loop:
\* SDL_PollEvent returns an event, which is handled
poll_sdl_event(event) ==
    /\ pc = "poll"
    /\ Delivered(GamepadState, event)
    /\ LET g == handle_sdl_event(GamepadState, event, now)
       IN  /\ gamepad' = g.gamepad
           /\ joystick_x' = g.joystick_x
           /\ joystick_y' = g.joystick_y
           /\ active_joystick_keys' = g.active_joystick_keys
           /\ last_key_update' = g.last_key_update
    /\ UNCHANGED <<now, pc, active_keys, key_list, joystick_list, tree_model,
                   rec_active, bar_value>>

\* SDL_PollEvent returns false: the loop ends and poll_sdl_events returns
poll_sdl_done ==
    /\ pc = "poll"
    /\ pc' = "idle"
    /\ UNCHANGED <<now, active_keys, joystick_x, joystick_y, active_joystick_keys,
                   last_key_update, key_list, joystick_list, gamepad, tree_model,
                   rec_active, bar_value>>

(* ------------------------------ keyboard ------------------------------- *)
\* mutant of keyPressEvent: the handler records the new key set at once
keyPressEvent_appends(key) ==
    /\ pc = "idle"
    /\ active_keys' = active_keys \cup {key}
    /\ last_key_update' = now
    /\ key_list' = IF Len(key_list) < MaxLen
                   THEN Append(key_list, from_qt_keys(active_keys \cup {key}))
                   ELSE key_list
    /\ UNCHANGED <<now, pc, joystick_x, joystick_y, active_joystick_keys,
                   joystick_list, gamepad, tree_model, rec_active, bar_value>>

keyPressEvent(key) ==
    /\ pc = "idle"
    /\ active_keys' = active_keys \cup {key}
    /\ last_key_update' = now
    /\ UNCHANGED <<now, pc, joystick_x, joystick_y, active_joystick_keys,
                   key_list, joystick_list, gamepad, tree_model, rec_active,
                   bar_value>>

keyReleaseEvent(key) ==
    /\ pc = "idle"
    /\ active_keys' = active_keys \ {key}
    /\ last_key_update' = now
    /\ UNCHANGED <<now, pc, joystick_x, joystick_y, active_joystick_keys,
                   key_list, joystick_list, gamepad, tree_model, rec_active,
                   bar_value>>

(* ------------------------------ indicator ------------------------------ *)
\* mutant of update_bar: the bar is kept full while keys are held by moving
\* last_key_update
update_bar_restamps ==
    /\ pc = "idle"
    /\ IF active_keys # {}
       THEN /\ bar_value' = KEYSTROKE_TIMEOUT_MS
            /\ rec_active' = TRUE
            /\ last_key_update' = now
       ELSE IF key_list # <<>>
       THEN /\ bar_value' =
                  Max(0, KEYSTROKE_TIMEOUT_MS - Elapsed(now, last_key_update))
            /\ rec_active' = TRUE
            /\ UNCHANGED last_key_update
       ELSE /\ rec_active' = FALSE
            /\ UNCHANGED <<bar_value, last_key_update>>
    /\ UNCHANGED <<now, pc, active_keys, joystick_x, joystick_y,
                   active_joystick_keys, key_list, joystick_list, gamepad,
                   tree_model>>

\* mutant of update_bar: the `elif self.key_list` branch is missing, so a
\* buffered stream with no key held shows IDLE
update_bar_keys_only ==
    /\ pc = "idle"
    /\ IF active_keys # {}
       THEN /\ bar_value' = KEYSTROKE_TIMEOUT_MS
            /\ rec_active' = TRUE
       ELSE /\ rec_active' = FALSE
            /\ UNCHANGED bar_value
    /\ UNCHANGED <<now, pc, active_keys, joystick_x, joystick_y,
                   active_joystick_keys, last_key_update, key_list,
                   joystick_list, gamepad, tree_model>>

\* progressbar_timer.timeout
update_bar ==
    /\ pc = "idle"
    /\ IF active_keys # {}
       THEN /\ bar_value' = KEYSTROKE_TIMEOUT_MS
            /\ rec_active' = TRUE
       ELSE IF key_list # <<>>
       THEN /\ bar_value' =
                  Max(0, KEYSTROKE_TIMEOUT_MS - Elapsed(now, last_key_update))
            /\ rec_active' = TRUE
       ELSE /\ rec_active' = FALSE
            /\ UNCHANGED bar_value
    /\ UNCHANGED <<now, pc, active_keys, joystick_x, joystick_y,
                   active_joystick_keys, last_key_update, key_list,
                   joystick_list, gamepad, tree_model>>

(* --------------------------- specifications ---------------------------- *)
Next ==
    \/ AdvanceTime
    \/ read_state
    \/ \E event \in SdlEvents : poll_sdl_event(event)
    \/ poll_sdl_done
    \/ \E key \in QtKeys : keyPressEvent(key)
    \/ \E key \in QtKeys : keyReleaseEvent(key)
    \/ update_bar

Spec == Init /\ [][Next]_vars

\* the timers keep firing, the SDL queue runs empty and the clock moves on
LiveSpec ==
    /\ Init /\ [][Next]_vars
    /\ WF_vars(AdvanceTime)
    /\ WF_vars(read_state)
    /\ WF_vars(poll_sdl_done)

\* a session in which no input event ever arrives
NextNoInput ==
    \/ AdvanceTime
    \/ read_state
    \/ poll_sdl_done
    \/ update_bar

SpecNoInput == Init /\ [][NextNoInput]_vars

\* a session with keyboard events only
NextKeyboardOnly ==
    \/ AdvanceTime
    \/ read_state
    \/ poll_sdl_done
    \/ \E key \in QtKeys : keyPressEvent(key)
    \/ \E key \in QtKeys : keyReleaseEvent(key)
    \/ update_bar

SpecKeyboardOnly == Init /\ [][NextKeyboardOnly]_vars

\* a session in which the gamepad reports axis motion only, on both sticks,
\* a trigger and an axis without a DOOM button code, with raw values at,
\* just inside and beyond both thresholds in both directions
RawAxes == {"LEFTX", "LEFTY", "LEFT_TRIGGER", "RIGHTX"}

RawAxisValues == {-16000, -8000, -7999, 7999, 8000, 15999, 16000}

AxisEvents ==
    [type : {"GAMEPAD_AXIS_MOTION"}, axis : RawAxes, value : RawAxisValues]

NextAxes ==
    \/ AdvanceTime
    \/ read_state
    \/ \E event \in AxisEvents : poll_sdl_event(event)
    \/ poll_sdl_done

SpecAxes == Init /\ [][NextAxes]_vars

(* ------------------------------- claims -------------------------------- *)
\* the step is a sampler tick: read_state runs and hands over to
\* poll_sdl_events
SamplerTick == pc = "idle" /\ pc' = "poll"

\* the step hands a Recording to the history or clears a non-empty stream
Finalizes ==
    \/ tree_model' # tree_model
    \/ key_list # <<>> /\ key_list' = <<>>
    \/ joystick_list # <<>> /\ joystick_list' = <<>>

\* C1: a step emits a Recording or clears a stream only if, in the state it
\* starts from, no key is held, stick x, stick y and the button mask are all
\* zero, and now - last_key_update is strictly greater than 2000 ms; at
\* exactly 2000 ms, or with a key held, nothing is emitted or cleared.
C1_FinalizeOnlyWhenIdleAndTimedOut ==
    [][Finalizes =>
         /\ active_keys = {}
         /\ joystick_x = 0 /\ joystick_y = 0 /\ active_joystick_keys = {}
         /\ now - last_key_update > KEYSTROKE_TIMEOUT_MS]_vars

\* a sampler tick has just finalized a stream that held input
C1_Witness ==
    /\ pc = "poll"
    /\ tree_model # <<>> /\ tree_model[Len(tree_model)].ticks >= 1
    /\ key_list = <<>>
    /\ active_keys = {} /\ ~joystick_active
    /\ now - last_key_update > KEYSTROKE_TIMEOUT_MS

\* C2: every Recording handed to the history holds at least one tick.
C2_EveryRecordingHasATick ==
    \A i \in DOMAIN tree_model : tree_model[i].ticks >= 1

\* C3: in a session without any key or gamepad event, whatever the clock
\* shows when the page is created, no Recording is ever emitted.
C3_NoInputNoRecording == tree_model = <<>>

\* times of a last input change after which the clock still passes the
\* timeout before it stops at MaxNow
LiveTimes ==
    {t \in 0..MaxNow : \E d \in TimeSteps : t + KEYSTROKE_TIMEOUT_MS + d <= MaxNow}

\* a keyboard stream is buffered, nothing is held, and the last input change
\* was at one of LiveTimes
Pending ==
    /\ key_list # <<>>
    /\ active_keys = {}
    /\ ~joystick_active
    /\ last_key_update \in LiveTimes

\* the buffered stream has been emitted and cleared, or input is held or has
\* changed at a later time
FinalizedOrInput ==
    \/ key_list = <<>> /\ tree_model # <<>>
    \/ active_keys # {}
    \/ joystick_active
    \/ last_key_update \notin LiveTimes

\* C4: when a stream is buffered, no key is held and the gamepad channel is
\* inactive, then, unless input changes again, a sampler tick eventually
\* emits the Recording and clears the stream (the sampler timer keeps firing
\* and the clock advances).  Without a further input change last_key_update
\* and the inactive channels stay as they are, so the only way out of Pending
\* is the finalizing tick.
C4_PendingStreamIsFinalized == Pending ~> FinalizedOrInput

\* a stream with input in it was emitted and cleared, the last input change
\* being at one of LiveTimes
C4_Witness ==
    /\ last_key_update \in LiveTimes
    /\ key_list = <<>>
    /\ Len(tree_model) = 1 /\ tree_model[1].ticks >= 1
    /\ active_keys = {} /\ ~joystick_active

\* the row the step appends to the history
NewRow == tree_model'[Len(tree_model) + 1]

\* C5: the keyboard Recording emitted by a finalizing tick is key_list as
\* sampled, in order, cut after its last non-idle tick: with n the number of
\* ticks of the Recording, n is at most the length of key_list, every tick of
\* key_list after the n-th is idle, the n-th tick (when n > 0) is not idle,
\* and the row shown is the row of the first n ticks, idle ticks before the
\* n-th included.
C5_RecordingIsStreamCutAfterLastActive ==
    [][(Len(tree_model') = Len(tree_model) + 1 /\ NewRow.kind = "Keyboard") =>
         LET n == NewRow.ticks
         IN  /\ n \in 0..Len(key_list)
             /\ \A i \in (n + 1)..Len(key_list) : is_idle(key_list[i])
             /\ n > 0 => ~is_idle(key_list[n])
             /\ NewRow = add_keyset_entry(SubSeq(key_list, 1, n))]_vars

\* a Recording of two ticks (0.066 s) was emitted and the stream cleared by
\* a tick 2001 ms after the last key event
C5_Witness ==
    /\ pc = "poll"
    /\ key_list = <<>>
    /\ tree_model # <<>>
    /\ tree_model[Len(tree_model)].ticks = 2
    /\ tree_model[Len(tree_model)].duration = [s |-> 0, ms |-> 66]
    /\ active_keys = {}
    /\ last_key_update = now - 2001

\* C6: every sampler tick that does not take the finalize branch appends one
\* tick to the gamepad stream, as it appends one to the keyboard stream.
C6_SamplerTickAppendsGamepadTick ==
    [][(SamplerTick /\ ~FinalizeCond) =>
         /\ Len(key_list') = Len(key_list) + 1
         /\ Len(joystick_list') = Len(joystick_list) + 1]_vars

\* C7: with keyboard events only, the gamepad stream is empty in every
\* state, no Gamepad row is ever handed to the history, and a sampler tick
\* that finds the keyboard stream non-empty, no key held and the timeout
\* passed emits one Keyboard row and clears the keyboard stream.
C7_KeyboardOnlyLeavesGamepadStreamEmpty ==
    [][/\ joystick_list' = <<>>
       /\ \A i \in DOMAIN tree_model' : tree_model'[i].kind # "Gamepad"
       /\ (/\ SamplerTick
           /\ key_list # <<>>
           /\ active_keys = {}
           /\ now - last_key_update > KEYSTROKE_TIMEOUT_MS)
          => /\ key_list' = <<>>
             /\ Len(tree_model') = Len(tree_model) + 1
             /\ NewRow.kind = "Keyboard"]_vars

\* a keyboard Recording was emitted and cleared, the gamepad stream is empty
C7_Witness ==
    /\ pc = "poll"
    /\ key_list = <<>>
    /\ joystick_list = <<>>
    /\ tree_model # <<>>
    /\ tree_model[Len(tree_model)].kind = "Keyboard"
    /\ tree_model[Len(tree_model)].ticks >= 1
    /\ now - last_key_update > KEYSTROKE_TIMEOUT_MS

\* C8: while no gamepad is open (after a gamepad-removed event, until one is
\* connected again) the gamepad channel is inactive, whatever was held when
\* the gamepad was removed.
C8_RemovedGamepadIsInactive == ~gamepad => ~joystick_active

\* C9: update_bar leaves the sampler's state unchanged (active_keys, stick
\* values, button mask, last_key_update, both streams) and emits nothing.
C9_UpdateBarLeavesSamplerState ==
    [][update_bar => UNCHANGED <<sampler_vars, tree_model, gamepad>>]_vars

\* update_bar has shown a draining bar for a buffered stream
C9_Witness ==
    /\ rec_active
    /\ bar_value \in 1..(KEYSTROKE_TIMEOUT_MS - 1)
    /\ key_list # <<>>
    /\ active_keys = {}

\* C10: last_key_update changes only to the current time, a sampler tick
\* never changes it, and a handled gamepad event that leaves the stick
\* values and the button mask as they were leaves it unchanged too.
C10_StampOnlyOnInputTransition ==
    [][/\ last_key_update' # last_key_update => last_key_update' = now
       /\ SamplerTick => last_key_update' = last_key_update
       /\ (/\ pc = "poll" /\ pc' = "poll" /\ now' = now
           /\ joystick_x' = joystick_x
           /\ joystick_y' = joystick_y
           /\ active_joystick_keys' = active_joystick_keys)
          => last_key_update' = last_key_update]_vars

\* C11: whenever the keyboard stream is non-empty between sampler ticks it
\* holds at least one non-idle tick appended since the last finalize.
C11_BufferedStreamHoldsActiveTick ==
    key_list # <<>> => \E i \in DOMAIN key_list : ~is_idle(key_list[i])

\* C12: the keyboard stream is trimmed only on a finalizing sampler tick, and
\* on such a tick the order is trim, handoff, clear with no append in
\* between: the Recording handed over is the one of the stream as buffered
\* before the tick with its trailing idle ticks removed, and the stream is
\* empty afterwards; on a tick that does not finalize the buffered ticks are
\* all kept, trailing idle ones included, and no other step touches the
\* stream.
C12_TrimThenHandoffThenClear ==
    [][/\ (SamplerTick /\ FinalizeCond /\ key_list # <<>>)
          => /\ Len(tree_model') = Len(tree_model) + 1
             /\ NewRow = add_keyset_entry(remove_trailing_idles(key_list))
             /\ key_list' = <<>>
       /\ (SamplerTick /\ ~FinalizeCond)
          => SubSeq(key_list', 1, Len(key_list)) = key_list
       /\ ~SamplerTick => key_list' = key_list]_vars

\* a stream has just been finalized into a Recording of one tick
C12_Witness ==
    /\ pc = "poll"
    /\ key_list = <<>>
    /\ tree_model # <<>>
    /\ tree_model[Len(tree_model)].kind = "Keyboard"
    /\ tree_model[Len(tree_model)].ticks = 1
    /\ FinalizeCond

\* C13: after every sampler tick that takes the finalize branch (no key
\* held, sticks and button mask zero, more than 2000 ms since
\* last_key_update) both streams are empty, whatever they held before: the
\* tick clears them and appends nothing.
C13_FinalizeTickLeavesStreamsEmpty ==
    [][(/\ SamplerTick
        /\ active_keys = {}
        /\ joystick_x = 0 /\ joystick_y = 0 /\ active_joystick_keys = {}
        /\ now - last_key_update > KEYSTROKE_TIMEOUT_MS)
       => key_list' = <<>> /\ joystick_list' = <<>>]_vars

\* two streams have been finalized, and the second finalizing tick has left
\* both streams empty
C13_Witness ==
    /\ pc = "poll"
    /\ Len(tree_model) = 2
    /\ key_list = <<>>
    /\ joystick_list = <<>>
    /\ active_keys = {}
    /\ ~joystick_active
    /\ now - last_key_update > KEYSTROKE_TIMEOUT_MS

\* C14: a sampler tick that finds no key held, sticks and button mask zero,
\* more than 2000 ms since last_key_update and both streams empty changes
\* nothing: the streams, the active key set, the gamepad state and
\* last_key_update stay as they were and no Recording is emitted.
C14_IdleTickChangesNothing ==
    [][(/\ SamplerTick
        /\ active_keys = {}
        /\ joystick_x = 0 /\ joystick_y = 0 /\ active_joystick_keys = {}
        /\ now - last_key_update > KEYSTROKE_TIMEOUT_MS
        /\ key_list = <<>> /\ joystick_list = <<>>)
       => UNCHANGED <<sampler_vars, gamepad, tree_model>>]_vars

\* the sampler has ticked in a session that has never buffered or emitted
\* anything, with the timeout long elapsed
C14_Witness ==
    /\ pc = "poll"
    /\ tree_model = <<>>
    /\ key_list = <<>>
    /\ joystick_list = <<>>
    /\ active_keys = {}
    /\ ~joystick_active
    /\ last_key_update = 0
    /\ now > KEYSTROKE_TIMEOUT_MS

\* C15: every sampler tick outside the finalize branch appends exactly one
\* tick to the end of the keyboard stream, built from the keys held at that
\* tick; a finalizing tick empties the stream and no other step changes its
\* length, so the stream holds one tick per non-finalizing sampler tick
\* since the last clear, in sampling order.
C15_OneTickPerSamplerTick ==
    [][/\ (SamplerTick /\ ~FinalizeCond)
          => key_list' = Append(key_list, from_qt_keys(active_keys))
       /\ Len(key_list') = IF ~SamplerTick THEN Len(key_list)
                           ELSE IF FinalizeCond THEN 0
                           ELSE Len(key_list) + 1]_vars

\* three ticks sampled in order: key held, key released, key held again
C15_Witness ==
    /\ pc = "poll"
    /\ key_list = <<from_qt_keys({"Key_W"}), from_qt_keys({}),
                    from_qt_keys({"Key_W"})>>
    /\ active_keys = {"Key_W"}

\* C16: both streams are changed only by read_state: every step that is not
\* a sampler tick (a key press or release, a polled gamepad event with its
\* button or axis handler, the end of polling, update_bar, the passing of
\* time) leaves key_list and joystick_list as they were.
C16_StreamsChangedOnlyBySampler ==
    [][~SamplerTick => UNCHANGED <<key_list, joystick_list>>]_vars

\* one idle tick is buffered, and since then a key was pressed, a gamepad
\* button went down and update_bar ran
C16_Witness ==
    /\ pc = "idle"
    /\ key_list = <<from_qt_keys({})>>
    /\ joystick_list = <<>>
    /\ active_keys # {}
    /\ active_joystick_keys # {}
    /\ rec_active
    /\ bar_value = KEYSTROKE_TIMEOUT_MS

\* what the claim says the gamepad state is once `value` has been reported
\* for `axis`
AxisReported(axis, value) ==
    /\ axis = "LEFTX"
       => /\ joystick_x' = IF value >= 8000 \/ value <= -8000 THEN value ELSE 0
          /\ UNCHANGED <<joystick_y, active_joystick_keys>>
    /\ axis = "LEFTY"
       => /\ joystick_y' = IF value >= 8000 \/ value <= -8000 THEN value ELSE 0
          /\ UNCHANGED <<joystick_x, active_joystick_keys>>
    /\ axis = "LEFT_TRIGGER"
       => /\ "BT_L2" \in active_joystick_keys'
                <=> (value >= 16000 \/ value <= -16000)
          /\ UNCHANGED <<joystick_x, joystick_y>>
    /\ axis \notin {"LEFTX", "LEFTY", "LEFT_TRIGGER"}
       => UNCHANGED <<joystick_x, joystick_y, active_joystick_keys>>

\* C17: under axis events only, every handled axis event leaves the stick
\* value of its axis at the reported raw value if that is at or beyond 8000
\* in either direction and at 0 otherwise, leaves the bit of its trigger axis
\* set exactly if the reported value is at or beyond 16000, and leaves the
\* other stick and bits alone; no other step changes them. So each stored
\* stick value is 0 or at least 8000 in absolute value and reflects the last
\* value reported for its axis, as does each trigger bit.
C17_AxisStateFollowsLastReport ==
    [][/\ \A event \in AxisEvents :
             poll_sdl_event(event) => AxisReported(event.axis, event.value)
       /\ ~(pc = "poll" /\ pc' = "poll")
             => UNCHANGED <<joystick_x, joystick_y, active_joystick_keys>>
       /\ joystick_x' = 0 \/ joystick_x' >= 8000 \/ joystick_x' <= -8000
       /\ joystick_y' = 0 \/ joystick_y' >= 8000 \/ joystick_y' <= -8000]_vars

\* axis events have left stick x at the negative threshold, stick y back in
\* the dead zone and the trigger bit set
C17_Witness ==
    /\ pc = "poll"
    /\ joystick_x = -8000
    /\ joystick_y = 0
    /\ active_joystick_keys = {"BT_L2"}
    /\ last_key_update = now
    /\ now > 0

\* C18: the duration reported for a Recording of n ticks is
\* floor(n * 1000 / 30) ms: the seconds and the millisecond remainder of
\* every history row add up to that value, the remainder lies in 0..999,
\* and the duration the row's head shows is that value.
C18_ReportedDurationIsTickTime ==
    \A i \in DOMAIN tree_model :
        LET d == tree_model[i].duration
            total == d.s * 1000 + d.ms
        IN  /\ d.ms \in 0..999
            /\ 30 * total <= tree_model[i].ticks * 1000
            /\ tree_model[i].ticks * 1000 < 30 * (total + 1)
            /\ head_duration_ms(d) = total

\* C19: every value update_bar passes to the timeout bar lies in the bar's
\* range 0..2000: last_key_update never exceeds the clock, and whenever
\* update_bar sets the bar (a key is held or the keyboard stream is
\* non-empty) the value it sets lies in 0..2000.
C19_BarValueInRange ==
    [][/\ last_key_update <= now
       /\ (update_bar /\ (active_keys # {} \/ key_list # <<>>))
          => bar_value' \in 0..2000
       /\ bar_value' # bar_value => bar_value' \in 0..2000]_vars

\* update_bar has run with a stream buffered, no key held and the timeout
\* elapsed: the remaining time was clamped to 0
C19_Witness ==
    /\ pc = "idle"
    /\ rec_active
    /\ bar_value = 0
    /\ key_list # <<>>
    /\ active_keys = {}
    /\ now - last_key_update > KEYSTROKE_TIMEOUT_MS

\* C20: right after any update_bar the indicator shows RECORDING if and only
\* if a key is held or the keyboard stream is non-empty, and the bar is full
\* (2000) whenever a key is held; so with the streams cleared by a
\* finalizing tick and no key held, update_bar shows IDLE.
C20_IndicatorFollowsKeysAndStream ==
    [][update_bar
       => /\ rec_active' <=> (active_keys # {} \/ key_list # <<>>)
          /\ active_keys # {} => bar_value' = 2000]_vars

\* the bar had drained to 0 for a buffered stream, the stream was finalized
\* and the next update_bar switched the indicator to IDLE
C20_Witness ==
    /\ pc = "idle"
    /\ ~rec_active
    /\ bar_value = 0
    /\ key_list = <<>>
    /\ active_keys = {}
    /\ tree_model # <<>>

====
